---- MODULE Spec2Model ----
(***************************************************************************)
(* Model of the RAG chat server: the in-memory store (MemStorage), the     *)
(* realtime gateway (the WebSocket 'message' handler), the context         *)
(* retriever, the vector-index gateway and the document pipeline.          *)
(*                                                                         *)
(* Scheduling.  The server is one Node.js process.  A handler runs until   *)
(* it awaits a call to an external service (embedding, vector index, chat  *)
(* completion, timer); awaiting a MemStorage method only yields to the     *)
(* microtask queue, which is drained before the next I/O callback runs.    *)
(* Each action below is therefore one I/O callback together with the       *)
(* whole microtask chain it starts: the arrival of a frame, the return of  *)
(* one external call, one HTTP request, a socket close.                    *)
(*                                                                         *)
(* Similarity scores are kept as integers, score * 100 (0.7 is 70).        *)
(***************************************************************************)
EXTENDS Integers, Sequences, FiniteSets, TLC

VARIABLES
    chatSessions,       \* MemStorage.chatSessions : id -> ChatSession
    messages,           \* MemStorage.messages     : id -> Message
    documents,          \* MemStorage.documents    : id -> Document
    currentSessionId,   \* MemStorage.currentSessionId
    currentMessageId,   \* MemStorage.currentMessageId
    currentDocumentId,  \* MemStorage.currentDocumentId
    clock,              \* the value the next `new Date()` returns
    conns,              \* per connection, in order of arrival: its readyState
    connUser,           \* per connection: the user whose client opened it
    outbox,             \* per connection: the frames the server sent on it
    handlers,           \* the 'message' handler invocations, in arrival order
    pipelines,          \* per document: the processDocument invocation
    lastUpload,         \* the latest upload request and the response it got
    collection,         \* the hosted index: "absent", "creating" or "ready"
    vectors             \* the records stored in the hosted index

vars == <<chatSessions, messages, documents, currentSessionId, currentMessageId,
          currentDocumentId, clock, conns, connUser, outbox, handlers, pipelines,
          lastUpload, collection, vectors>>

storeVars == <<chatSessions, messages, currentSessionId, currentMessageId, clock>>
docVars   == <<documents, currentDocumentId, pipelines, lastUpload>>
indexVars == <<collection, vectors>>
wsVars    == <<conns, connUser, outbox, handlers>>

-----------------------------------------------------------------------------
(* Bounds of the model *)

MaxHandlers  == 2    \* frames received, over all connections
MaxConns     == 1    \* connections accepted
MaxSessions  == 1    \* chat sessions created
ManySessions == 2    \* chat sessions created, where several sessions matter
OneHandler   == 1    \* frames received, where the index contents vary
TwoConns     == 2    \* connections accepted, where several connections matter
Burst        == 11   \* frames received in a burst
Answered     == 1    \* requests of a burst whose external calls return
Hung         == 1    \* requests, and documents, whose external calls never return
OneDoc       == 1    \* documents uploaded, where every external call returns
MaxDocs      == 2    \* documents uploaded
MaxChunks    == 2    \* chunks the splitter cuts a document into

Users == {1, 2}

(* Program constants *)

FileSizeLimit  == 10 * 1024 * 1024   \* limits.fileSize
PreviewLimit   == 100   \* content.length > 100
HistoryLimit   == 10    \* messages.slice(-10)
TopK           == 5     \* searchSimilarChunks(queryEmbedding, userId, 5)
ScoreThreshold == 70    \* result.score > 0.7

-----------------------------------------------------------------------------
(* Values *)

Null    == <<>>                 \* null / undefined
Some(x) == <<x>>
IsNull(o) == Len(o) = 0
Get(o)  == o[1]

RECURSIVE Repeat(_, _)
Repeat(s, n) == IF n = 0 THEN "" ELSE s \o Repeat(s, n - 1)

Min(a, b) == IF a < b THEN a ELSE b
Max(a, b) == IF a > b THEN a ELSE b

-----------------------------------------------------------------------------
(* MemStorage.  A Map iterates in insertion order; ids only grow and a key is *)
(* never inserted again after a delete, so insertion order is ascending id.   *)

\* the elements of a set of numbers, smallest first
Ascending(S) ==
    [p \in 1..Cardinality(S) |->
        CHOOSE x \in S : Cardinality({y \in S : y < x}) = p - 1]

\* Array.from(map.values())
MapValues(map) ==
    LET ids == Ascending(DOMAIN map)
    IN  [i \in 1..Len(ids) |-> map[ids[i]]]

\* Array.prototype.sort((a, b) => a.createdAt - b.createdAt): a stable sort;
\* the element at index k goes behind those of an earlier createdAt and behind
\* those of the same createdAt that stood before it
SortByCreatedAt(s) ==
    LET Rank(k) == 1 + Cardinality({j \in 1..Len(s) :
                          \/ s[j].createdAt < s[k].createdAt
                          \/ s[j].createdAt = s[k].createdAt /\ j < k})
    IN  [p \in 1..Len(s) |-> s[CHOOSE k \in 1..Len(s) : Rank(k) = p]]

\* getChatSession(id): the session, or undefined
getChatSession(sessions, id) ==
    IF id \in DOMAIN sessions THEN Some(sessions[id]) ELSE Null

\* createChatSession(insertSession), the record stored under the new id
createChatSession(id, now, insertSession) ==
    [id          |-> id,
     userId      |-> insertSession.userId,
     title       |-> insertSession.title,
     lastMessage |-> Null,
     createdAt   |-> now,
     updatedAt   |-> now]

\* updateChatSession(id, {lastMessage}): the map after the call
updateChatSession(sessions, id, lastMessage, now) ==
    IF id \notin DOMAIN sessions THEN sessions
    ELSE [sessions EXCEPT ![id].lastMessage = Some(lastMessage),
                          ![id].updatedAt   = now]

\* mutant: the session's messages are left in the store
DeleteSessionMessagesNone(msgs, id) == msgs

\* deleteChatSession(id): the messages map after removing the session's messages
DeleteSessionMessages(msgs, id) ==
    [m \in {k \in DOMAIN msgs : msgs[k].sessionId # id} |-> msgs[m]]

\* deleteChatSession(id): the sessions map after chatSessions.delete(id)
DeleteSessionRecord(sessions, id) ==
    [s \in DOMAIN sessions \ {id} |-> sessions[s]]

\* mutant: the messages of every session are returned
getMessagesUnfiltered(msgs, sessionId) == SortByCreatedAt(MapValues(msgs))

\* getMessagesBySessionId(sessionId)
getMessagesBySessionId(msgs, sessionId) ==
    SortByCreatedAt(SelectSeq(MapValues(msgs), LAMBDA m : m.sessionId = sessionId))

\* createMessage(insertMessage), the record stored under the new id
createMessage(id, now, insertMessage) ==
    [id        |-> id,
     sessionId |-> insertMessage.sessionId,
     role      |-> insertMessage.role,
     content   |-> insertMessage.content,
     sources   |-> insertMessage.sources,
     createdAt |-> now]

\* this.messages.set(id, message)
MapSet(map, id, value) == (id :> value) @@ map

\* createDocument(insertDocument), the record stored under the new id
createDocument(id, now, insertDocument) ==
    [id        |-> id,
     userId    |-> insertDocument.userId,
     name      |-> insertDocument.name,
     mimeType  |-> insertDocument.mimeType,
     status    |-> IF insertDocument.status = "" THEN "processing"
                   ELSE insertDocument.status,
     pageCount |-> insertDocument.pageCount,
     createdAt |-> now]

\* updateDocumentStatus(id, status, pageCount): the map after the call
updateDocumentStatus(docs, id, status, pageCount) ==
    IF id \notin DOMAIN docs THEN docs
    ELSE [docs EXCEPT ![id].status = status,
                      ![id].pageCount = IF IsNull(pageCount) THEN @ ELSE pageCount]

-----------------------------------------------------------------------------
(* Vector index gateway and context retriever *)

\* generateEmbedding(text): the vector the embedding model returns for text
Embedding(text) == <<"embedding", text>>

\* mutant: the query carries no filter
MatchesAnyUser(v, userId) == TRUE

\* the hosted index applies `filter: { userId }` to a stored record
MatchesFilter(v, userId) == v.metadata.userId = userId

\* index.query({vector, topK, filter}): the match lists the service may return
\* when the stored records score as `score` says: the topK best of the records
\* passing the filter, best first (ties in any order)
QueryMatches(vecs, userId, topK, score) ==
    LET cand == {v \in vecs : MatchesFilter(v, userId)}
        n    == Min(topK, Cardinality(cand))
    IN  {[i \in 1..n |-> [id       |-> s[i].id,
                          score    |-> score[s[i].id],
                          metadata |-> s[i].metadata]] :
            s \in {t \in [1..n -> cand] :
                     /\ \A i, j \in 1..n : i < j =>
                           /\ t[i] # t[j]
                           /\ score[t[i].id] >= score[t[j].id]
                     /\ \A v \in cand :
                           (\A i \in 1..n : t[i] # v) =>
                               \A i \in 1..n : score[v.id] <= score[t[i].id]}}

\* searchSimilarChunks: response.matches?.map(...) || []
searchSimilarChunks(matches) ==
    [i \in 1..Len(matches) |->
        [id       |-> matches[i].id,
         score    |-> matches[i].score,
         metadata |-> matches[i].metadata,
         text     |-> matches[i].metadata.text]]

\* mutant: the threshold itself passes
HighConfidenceInclusive(result) == result.score >= ScoreThreshold

\* result.score > 0.7
HighConfidence(result) == result.score > ScoreThreshold

\* `[${documentName}, page ${pageNumber || 'unknown'}]: ${text}`; no chunk
\* carries a pageNumber (processDocument sets none)
FormatResult(result) ==
    "[" \o result.metadata.documentName \o ", page unknown]: " \o result.text

RECURSIVE Join(_, _)
Join(strs, sep) ==
    IF Len(strs) = 0 THEN ""
    ELSE IF Len(strs) = 1 THEN strs[1]
    ELSE strs[1] \o sep \o Join(Tail(strs), sep)

\* generateContextFromQuery, from the search results on
ContextOf(results) ==
    IF Len(results) = 0 THEN ""
    ELSE LET kept == SelectSeq(results, HighConfidence)
         IN  Join([i \in 1..Len(kept) |-> FormatResult(kept[i])], "\n\n")

-----------------------------------------------------------------------------
(* Realtime gateway *)

\* mutant: the length test is off by one
PreviewOffByOne(content) ==
    IF Len(content) >= PreviewLimit
    THEN SubSeq(content, 1, PreviewLimit) \o "..."
    ELSE content

\* content.length > 100 ? content.substring(0, 100) + '...' : content
Preview(content) ==
    IF Len(content) > PreviewLimit
    THEN SubSeq(content, 1, PreviewLimit) \o "..."
    ELSE content

\* mutant: the ownership comparison is left out
UnauthorizedMissingOnly(session, userId) == IsNull(session)

\* !session || session.userId !== userId
Unauthorized(session, userId) ==
    IsNull(session) \/ Get(session).userId # userId

\* messages.slice(-10).map(msg => ({role, content}))
ChatHistory(msgs) ==
    LET from == Max(1, Len(msgs) - HistoryLimit + 1)
        last == SubSeq(msgs, from, Len(msgs))
    IN  [i \in 1..Len(last) |-> [role |-> last[i].role, content |-> last[i].content]]

\* mutant: the marker is set whatever the context
SourcesAlways(context) == {"hasContext"}

\* context ? { hasContext: true } : null
SourcesOf(context) == IF context # "" THEN {"hasContext"} ELSE {}

\* ws.send(frame): a frame handed to a socket that is not OPEN is dropped
WsSend(box, c, frame) ==
    IF conns[c] = "open" THEN [box EXCEPT ![c] = Append(@, frame)] ELSE box

Contents   == {Repeat("a", PreviewLimit), Repeat("b", PreviewLimit + 1)}
Replies    == {"answer"}
Scores     == {ScoreThreshold - 10, ScoreThreshold, ScoreThreshold + 20}

\* the frames a client may send
Datas(sessionIds, contents, users) ==
    [parses : {TRUE}, type : {"chat_message"}, sessionId : sessionIds,
     content : contents, userId : users]
    \cup {[parses |-> TRUE, type |-> "ping", sessionId |-> 0, content |-> "", userId |-> 0],
          [parses |-> FALSE, type |-> "", sessionId |-> 0, content |-> "", userId |-> 0]}

NewHandler(c, data, pc) ==
    [conn        |-> c,
     type        |-> data.type,
     sessionId   |-> data.sessionId,
     userId      |-> data.userId,
     content     |-> data.content,
     pc          |-> pc,
     userMessage |-> Null,
     retrieval   |-> "none",
     results     |-> <<>>,
     context     |-> "",
     loaded      |-> <<>>,
     history     |-> <<>>,
     aiMessage   |-> Null]

\* the frames the server sends; `cause` is the handler that sent the frame
ErrorFrame(h, text) == [type |-> "error", message |-> text, cause |-> h]

ResponseFrame(h, userMessage, aiMessage) ==
    [type |-> "chat_response", userMessage |-> userMessage,
     aiMessage |-> aiMessage, cause |-> h]

\* mutant: the catch block answers with a `chat_response`
CatchBlockResponds(box, c, h) ==
    IF conns[c] = "open"
    THEN [box EXCEPT ![c] = Append(@, ResponseFrame(h, Null, Null))]
    ELSE box

\* mutant: the catch block only logs
CatchBlockSilent(box, c, h) == box

\* the catch block of the handler
CatchBlock(box, c, h) ==
    IF conns[c] = "open"
    THEN WsSend(box, c, ErrorFrame(h, "Failed to process message"))
    ELSE box

\* mutant: the response is sent whatever the readyState
SendResponseUnguarded(box, c, h, userMessage, aiMessage) ==
    [box EXCEPT ![c] = Append(@, [type |-> "chat_response", userMessage |-> userMessage,
                                  aiMessage |-> aiMessage, cause |-> h])]

\* mutant: the response goes to every open connection
SendResponseBroadcast(box, c, h, userMessage, aiMessage) ==
    [d \in 1..Len(box) |->
        IF conns[d] = "open"
        THEN Append(box[d], [type |-> "chat_response", userMessage |-> userMessage,
                             aiMessage |-> aiMessage, cause |-> h])
        ELSE box[d]]

\* if (ws.readyState === WebSocket.OPEN) ws.send(chat_response)
SendResponse(box, c, h, userMessage, aiMessage) ==
    IF conns[c] = "open"
    THEN WsSend(box, c, ResponseFrame(h, userMessage, aiMessage))
    ELSE box

\* wss.on('connection'): a new socket, OPEN, opened by the client of user u;
\* the callback reads nothing of the upgrade request, so the server keeps no
\* record of u
Connect(u) ==
    /\ conns' = Append(conns, "open")
    /\ connUser' = Append(connUser, u)
    /\ outbox' = Append(outbox, <<>>)
    /\ UNCHANGED <<storeVars, docVars, indexVars, handlers>>

\* the client goes away: ws.on('close')
Close(c) ==
    /\ c \in 1..Len(conns)
    /\ conns[c] = "open"
    /\ conns' = [conns EXCEPT ![c] = "closed"]
    /\ UNCHANGED <<storeVars, docVars, indexVars, connUser, outbox, handlers>>

\* ws.on('message'), from the arrival of the frame to the first external call
Receive(c, data) ==
    /\ c \in 1..Len(conns)
    /\ conns[c] = "open"
    /\ LET h       == Len(handlers) + 1
           session == getChatSession(chatSessions, data.sessionId)
           userMessage == createMessage(currentMessageId, clock,
                              [sessionId |-> data.sessionId, role |-> "user",
                               content |-> data.content, sources |-> {}])
       IN  IF ~data.parses
           THEN \* JSON.parse throws: the catch block
                /\ handlers' = Append(handlers, NewHandler(c, data, "failed"))
                /\ outbox' = CatchBlock(outbox, c, h)
                /\ UNCHANGED <<storeVars, conns, connUser>>
           ELSE IF data.type # "chat_message"
           THEN /\ handlers' = Append(handlers, NewHandler(c, data, "ignored"))
                /\ UNCHANGED <<storeVars, conns, connUser, outbox>>
           ELSE IF Unauthorized(session, data.userId)
           THEN /\ handlers' = Append(handlers, NewHandler(c, data, "rejected"))
                /\ outbox' = WsSend(outbox, c, ErrorFrame(h, "Unauthorized"))
                /\ UNCHANGED <<storeVars, conns, connUser>>
           ELSE /\ messages' = MapSet(messages, currentMessageId, userMessage)
                /\ currentMessageId' = currentMessageId + 1
                /\ clock' = clock + 1
                /\ handlers' = Append(handlers,
                       [NewHandler(c, data, "embedding") EXCEPT
                           !.userMessage = Some(userMessage),
                           !.retrieval = "pending"])
                /\ UNCHANGED <<chatSessions, currentSessionId, conns, connUser, outbox>>
    /\ UNCHANGED <<docVars, indexVars>>

\* mutant: the responder is called while the retrieval is still pending
ContextNotAwaited(h, outcome, results, context) ==
    [h EXCEPT !.loaded  = getMessagesBySessionId(messages, h.sessionId),
              !.history = ChatHistory(getMessagesBySessionId(messages, h.sessionId)),
              !.pc      = "completion"]

\* generateContextFromQuery returns `context` to the handler, which goes on to
\* load the history and call generateChatResponse
ContextReturned(h, outcome, results, context) ==
    [h EXCEPT !.retrieval = outcome,
              !.results   = results,
              !.context   = context,
              !.loaded    = getMessagesBySessionId(messages, h.sessionId),
              !.history   = ChatHistory(getMessagesBySessionId(messages, h.sessionId)),
              !.pc        = "completion"]

\* mutant: the retriever lets the error through to the handler's catch block
RetrievalRethrown(h) == [h EXCEPT !.retrieval = "failed", !.pc = "failed"]

\* generateContextFromQuery's catch block: return ""
RetrievalFailed(h) == ContextReturned(h, "failed", <<>>, "")

\* mutant: the call is delivered only when no earlier request is in flight
EmbeddingReturnsInOrder(i, ok) ==
    /\ i \in 1..Len(handlers)
    /\ handlers[i].pc = "embedding"
    /\ \A j \in 1..(i - 1) :
          handlers[j].pc \notin {"embedding", "listIndexes", "createIndex",
                                 "waitReady", "query", "completion"}
    /\ handlers' = [handlers EXCEPT ![i] =
                       IF ok THEN [@ EXCEPT !.pc = "listIndexes"]
                       ELSE [@ EXCEPT !.retrieval = "failed", !.pc = "completion"]]
    /\ UNCHANGED <<storeVars, docVars, indexVars, conns, connUser, outbox>>

\* the embedding call of generateContextFromQuery returns
EmbeddingReturns(i, ok) ==
    /\ i \in 1..Len(handlers)
    /\ handlers[i].pc = "embedding"
    /\ handlers' = [handlers EXCEPT ![i] =
                       IF ok THEN [@ EXCEPT !.pc = "listIndexes"]
                       ELSE RetrievalFailed(@)]
    /\ UNCHANGED <<storeVars, docVars, indexVars, conns, connUser, outbox>>

\* initializePinecone: pinecone.listIndexes() returns
ListIndexesReturns(i, ok) ==
    /\ i \in 1..Len(handlers)
    /\ handlers[i].pc = "listIndexes"
    /\ handlers' = [handlers EXCEPT ![i] =
                       IF ~ok THEN RetrievalFailed(@)
                       ELSE IF collection # "absent" THEN [@ EXCEPT !.pc = "query"]
                       ELSE [@ EXCEPT !.pc = "createIndex"]]
    /\ UNCHANGED <<storeVars, docVars, indexVars, conns, connUser, outbox>>

\* initializePinecone: pinecone.createIndex() returns; the service refuses to
\* create a collection that exists
CreateIndexReturns(i, ok) ==
    /\ i \in 1..Len(handlers)
    /\ handlers[i].pc = "createIndex"
    /\ IF ok /\ collection = "absent"
       THEN /\ collection' = "creating"
            /\ handlers' = [handlers EXCEPT ![i].pc = "waitReady"]
       ELSE /\ collection' = collection
            /\ handlers' = [handlers EXCEPT ![i] = RetrievalFailed(@)]
    /\ UNCHANGED <<storeVars, docVars, vectors, conns, connUser, outbox>>

\* initializePinecone: the 10 s timer fires
ReadyWaitElapsed(i) ==
    /\ i \in 1..Len(handlers)
    /\ handlers[i].pc = "waitReady"
    /\ handlers' = [handlers EXCEPT ![i].pc = "query"]
    /\ UNCHANGED <<storeVars, docVars, indexVars, conns, connUser, outbox>>

\* the hosted service finishes building a collection
CollectionReady ==
    /\ collection = "creating"
    /\ collection' = "ready"
    /\ UNCHANGED <<storeVars, docVars, vectors, wsVars>>

\* searchSimilarChunks: index.query() returns; a collection that is not ready
\* cannot be queried
QueryReturns(i, ok) ==
    /\ i \in 1..Len(handlers)
    /\ handlers[i].pc = "query"
    /\ IF ok /\ collection = "ready"
       THEN \E score \in [{v.id : v \in vectors} -> Scores] :
            \E matches \in QueryMatches(vectors, handlers[i].userId, TopK, score) :
                LET results == searchSimilarChunks(matches)
                IN  handlers' = [handlers EXCEPT ![i] =
                        ContextReturned(@, "ok", results, ContextOf(results))]
       ELSE handlers' = [handlers EXCEPT ![i] = RetrievalFailed(@)]
    /\ UNCHANGED <<storeVars, docVars, indexVars, conns, connUser, outbox>>

\* generateChatResponse returns or throws; the handler runs to its end
CompletionReturns(i, ok, reply) ==
    /\ i \in 1..Len(handlers)
    /\ handlers[i].pc = "completion"
    /\ LET h == handlers[i]
           aiMessage == createMessage(currentMessageId, clock,
                            [sessionId |-> h.sessionId, role |-> "assistant",
                             content |-> reply, sources |-> SourcesOf(h.context)])
       IN  IF ok
           THEN /\ messages' = MapSet(messages, currentMessageId, aiMessage)
                /\ currentMessageId' = currentMessageId + 1
                /\ chatSessions' = updateChatSession(chatSessions, h.sessionId,
                                                     Preview(h.content), clock + 1)
                /\ clock' = clock + 2
                /\ handlers' = [handlers EXCEPT ![i].aiMessage = Some(aiMessage),
                                                ![i].pc = "done"]
                /\ outbox' = SendResponse(outbox, h.conn, i, Get(h.userMessage), aiMessage)
                /\ UNCHANGED currentSessionId
           ELSE \* the catch block
                /\ handlers' = [handlers EXCEPT ![i].pc = "failed"]
                /\ outbox' = CatchBlock(outbox, h.conn, i)
                /\ UNCHANGED storeVars
    /\ UNCHANGED <<docVars, indexVars, conns, connUser>>

-----------------------------------------------------------------------------
(* HTTP routes of the chat sessions *)

\* POST /api/chat/sessions, by the authenticated user u
CreateSession(u) ==
    /\ chatSessions' = MapSet(chatSessions, currentSessionId,
                           createChatSession(currentSessionId, clock,
                               [userId |-> u, title |-> "New Chat"]))
    /\ currentSessionId' = currentSessionId + 1
    /\ clock' = clock + 1
    /\ UNCHANGED <<messages, currentMessageId, docVars, indexVars, wsVars>>

\* DELETE /api/chat/sessions/:id, by the authenticated user u
DeleteSession(u, id) ==
    /\ IF Unauthorized(getChatSession(chatSessions, id), u)
       THEN UNCHANGED <<chatSessions, messages>>           \* 404
       ELSE /\ messages' = DeleteSessionMessages(messages, id)
            /\ chatSessions' = DeleteSessionRecord(chatSessions, id)
    /\ UNCHANGED <<currentSessionId, currentMessageId, clock, docVars, indexVars, wsVars>>

-----------------------------------------------------------------------------
(* Document upload and pipeline *)

AllowedTypes ==
    {"application/pdf",
     "application/vnd.openxmlformats-officedocument.wordprocessingml.document",
     "text/plain"}

\* mutant: the file filter lets every content type through
AcceptedAnyType(file) == file.size <= FileSizeLimit

\* multer: fileFilter and limits.fileSize
Accepted(file) == file.mimetype \in AllowedTypes /\ file.size <= FileSizeLimit

\* the upload request as the route sees it
UploadRequest(authenticated, hasFile, file) ==
    [authenticated |-> authenticated, hasFile |-> hasFile,
     mimetype |-> file.mimetype, size |-> file.size]

\* next(err) from multer, res.sendStatus(401), res.status(400).json(...)
UploadError(status) == [status |-> status, body |-> Null]

\* mutant: the response is built from the record as the pipeline leaves it
UploadResponseAwaited(document) ==
    [status |-> 201, body |-> Some([document EXCEPT !.status = "processed"])]

\* res.status(201).json(document)
UploadResponse(document) == [status |-> 201, body |-> Some(document)]

\* the characters String.prototype.trim() removes, among those of Texts
Whitespace == {" ", "\t", "\n", "\r"}

\* mutant: the emptiness check is left out
BlankNever(text) == FALSE

\* !text.trim(), a text being a sequence of characters
Blank(text) == \A k \in 1..Len(text) : text[k] \in Whitespace

\* chunks.map((chunk, index) => ({id, text, metadata}))
DocumentChunks(chunks, documentId, documentName, userId) ==
    [k \in 1..Len(chunks) |->
        [id       |-> <<documentId, k - 1>>,
         text     |-> chunks[k],
         metadata |-> [documentId |-> documentId, documentName |-> documentName,
                       userId |-> userId, chunkIndex |-> k - 1]]]

\* mutant: the vectors are paired with the chunks in the opposite order
UpsertVectorsReversed(chunks, embeddings) ==
    {[id       |-> chunks[k].id,
      values   |-> embeddings[Len(chunks) + 1 - k],
      metadata |-> [documentId   |-> chunks[k].metadata.documentId,
                    documentName |-> chunks[k].metadata.documentName,
                    userId       |-> chunks[k].metadata.userId,
                    chunkIndex   |-> chunks[k].metadata.chunkIndex,
                    text         |-> chunks[k].text]] : k \in 1..Len(chunks)}

\* upsertDocumentChunks: chunks.map((chunk, i) => ({id, values, metadata}))
UpsertVectors(chunks, embeddings) ==
    {[id       |-> chunks[k].id,
      values   |-> embeddings[k],
      metadata |-> [documentId   |-> chunks[k].metadata.documentId,
                    documentName |-> chunks[k].metadata.documentName,
                    userId       |-> chunks[k].metadata.userId,
                    chunkIndex   |-> chunks[k].metadata.chunkIndex,
                    text         |-> chunks[k].text]] : k \in 1..Len(chunks)}

\* index.upsert(vectors): a record replaces the stored record of the same id
IndexUpsert(stored, new) ==
    {v \in stored : \A w \in new : w.id # v.id} \cup new

\* upsertDocumentChunks, once initializePinecone has returned: the batch is
\* built from the chunks and the array Promise.all resolved with, and
\* index.upsert(vectors) is sent; `upserts` keeps the batches sent
IssueUpsert(p) ==
    [p EXCEPT !.pc = "upsert",
              !.upserts = Append(@, UpsertVectors(p.chunks,
                              [k \in 1..Len(p.chunks) |-> Get(p.embeddings[k])]))]

\* the splitter's output for a text that is not blank: one to maxChunks chunks
ChunkTexts == <<"alpha", "beta", "gamma", "delta">>
Splits(maxChunks) == {SubSeq(ChunkTexts, 1, n) : n \in 1..maxChunks}

\* mutant: the .then() leaves the record alone
PipelineResolvedForgets(docs, d) == docs

\* the .then() of the upload route
PipelineResolved(docs, d) == updateDocumentStatus(docs, d, "processed", Some(1))

\* mutant: the .catch() leaves the record alone
PipelineRejectedForgets(docs, d) == docs

\* the .catch() of the upload route
PipelineRejected(docs, d) == updateDocumentStatus(docs, d, "failed", Null)

\* a microtask chain is running: an upload whose processDocument has not yet
\* reached its first external call
Running == \E d \in DOMAIN pipelines : pipelines[d].pc = "start"

\* POST /api/documents/upload, up to the response: multer runs first, then the
\* route; the response is written in the tick that created the record, before
\* any microtask of processDocument's promise runs
Upload(authenticated, u, hasFile, file) ==
    /\ ~Running
    /\ LET request  == UploadRequest(authenticated, hasFile, file)
           document == createDocument(currentDocumentId, clock,
                           [userId |-> u, name |-> file.originalname,
                            mimeType |-> file.mimetype,
                            status |-> "processing", pageCount |-> Null])
           Reject(status) ==
               /\ lastUpload' = Some([request |-> request,
                                      response |-> UploadError(status)])
               /\ UNCHANGED <<documents, currentDocumentId, pipelines, clock>>
       IN  IF hasFile /\ ~Accepted(file) THEN Reject(500)
           ELSE IF ~authenticated THEN Reject(401)
           ELSE IF ~hasFile THEN Reject(400)
           ELSE /\ documents' = MapSet(documents, currentDocumentId, document)
                /\ pipelines' = MapSet(pipelines, currentDocumentId,
                                    [pc |-> "start", userId |-> u, text |-> file.text,
                                     mimeType |-> file.mimetype,
                                     chunks |-> <<>>, embedded |-> <<>>,
                                     embeddings |-> <<>>, upserts |-> <<>>])
                /\ currentDocumentId' = currentDocumentId + 1
                /\ clock' = clock + 1
                /\ lastUpload' = Some([request |-> request,
                                       response |-> UploadResponse(document)])
    /\ UNCHANGED <<chatSessions, messages, currentSessionId, currentMessageId,
                   indexVars, wsVars>>

\* processDocument up to its first external calls: read, check, split, and one
\* embedding call per chunk
PipelineStart(d, chunks) ==
    /\ d \in DOMAIN pipelines
    /\ pipelines[d].pc = "start"
    /\ IF pipelines[d].mimeType \notin AllowedTypes \/ Blank(pipelines[d].text)
       THEN /\ pipelines' = [pipelines EXCEPT ![d].pc = "rejected"]
            /\ documents' = PipelineRejected(documents, d)
       ELSE /\ pipelines' = [pipelines EXCEPT
                   ![d].pc = "embedding",
                   ![d].chunks = DocumentChunks(chunks, d, documents[d].name,
                                                pipelines[d].userId),
                   ![d].embedded = [k \in 1..Len(chunks) |-> "pending"],
                   ![d].embeddings = [k \in 1..Len(chunks) |-> Null]]
            /\ UNCHANGED documents
    /\ UNCHANGED <<storeVars, currentDocumentId, lastUpload, indexVars, wsVars>>

\* one generateEmbedding call of the pipeline returns; Promise.all rejects with
\* the first failure and resolves with the last success
ChunkEmbeddingReturns(d, k, ok) ==
    /\ ~Running
    /\ d \in DOMAIN pipelines
    /\ k \in 1..Len(pipelines[d].embedded)
    /\ pipelines[d].embedded[k] = "pending"
    /\ LET embedded == [pipelines[d].embedded EXCEPT ![k] = IF ok THEN "ok" ELSE "failed"]
           racing   == pipelines[d].pc = "embedding"
           allDone  == \A j \in 1..Len(embedded) : embedded[j] = "ok"
       IN  /\ pipelines' = [pipelines EXCEPT
                   ![d].embedded = embedded,
                   ![d].embeddings[k] =
                       IF ok THEN Some(Embedding(pipelines[d].chunks[k].text)) ELSE @,
                   ![d].pc = IF ~racing THEN @
                             ELSE IF ~ok THEN "rejected"
                             ELSE IF allDone THEN "listIndexes" ELSE @]
           /\ documents' = IF racing /\ ~ok THEN PipelineRejected(documents, d)
                           ELSE documents
    /\ UNCHANGED <<storeVars, currentDocumentId, lastUpload, indexVars, wsVars>>

\* upsertDocumentChunks -> initializePinecone: pinecone.listIndexes() returns
PipelineListIndexesReturns(d, ok) ==
    /\ ~Running
    /\ d \in DOMAIN pipelines
    /\ pipelines[d].pc = "listIndexes"
    /\ pipelines' = [pipelines EXCEPT ![d] =
                        IF ~ok THEN [@ EXCEPT !.pc = "rejected"]
                        ELSE IF collection # "absent" THEN IssueUpsert(@)
                        ELSE [@ EXCEPT !.pc = "createIndex"]]
    /\ documents' = IF ok THEN documents ELSE PipelineRejected(documents, d)
    /\ UNCHANGED <<storeVars, currentDocumentId, lastUpload, indexVars, wsVars>>

\* upsertDocumentChunks -> initializePinecone: pinecone.createIndex() returns
PipelineCreateIndexReturns(d, ok) ==
    /\ ~Running
    /\ d \in DOMAIN pipelines
    /\ pipelines[d].pc = "createIndex"
    /\ IF ok /\ collection = "absent"
       THEN /\ collection' = "creating"
            /\ pipelines' = [pipelines EXCEPT ![d].pc = "waitReady"]
            /\ UNCHANGED documents
       ELSE /\ collection' = collection
            /\ pipelines' = [pipelines EXCEPT ![d].pc = "rejected"]
            /\ documents' = PipelineRejected(documents, d)
    /\ UNCHANGED <<storeVars, currentDocumentId, lastUpload, vectors, wsVars>>

\* upsertDocumentChunks -> initializePinecone: the 10 s timer fires and
\* index.upsert(vectors) is sent
PipelineReadyWaitElapsed(d) ==
    /\ ~Running
    /\ d \in DOMAIN pipelines
    /\ pipelines[d].pc = "waitReady"
    /\ pipelines' = [pipelines EXCEPT ![d] = IssueUpsert(@)]
    /\ UNCHANGED <<storeVars, documents, currentDocumentId, lastUpload, indexVars, wsVars>>

\* index.upsert(vectors) returns; a collection that is not ready takes no write
UpsertReturns(d, ok) ==
    /\ ~Running
    /\ d \in DOMAIN pipelines
    /\ pipelines[d].pc = "upsert"
    /\ IF ok /\ collection = "ready"
       THEN /\ vectors' = IndexUpsert(vectors,
                              pipelines[d].upserts[Len(pipelines[d].upserts)])
            /\ pipelines' = [pipelines EXCEPT ![d].pc = "resolved"]
            /\ documents' = PipelineResolved(documents, d)
       ELSE /\ vectors' = vectors
            /\ pipelines' = [pipelines EXCEPT ![d].pc = "rejected"]
            /\ documents' = PipelineRejected(documents, d)
    /\ UNCHANGED <<storeVars, currentDocumentId, lastUpload, collection, wsVars>>

-----------------------------------------------------------------------------
(* Specification of the chat system *)

\* the records the hosted index may hold from earlier runs of the server
SeedVector(d, u, text) ==
    [id       |-> <<d, 0>>,
     values   |-> Embedding(text),
     metadata |-> [documentId |-> d, documentName |-> "notes.txt", userId |-> u,
                   chunkIndex |-> 0, text |-> text]]

SeedVectors == {SeedVector(1, 1, "alpha"), SeedVector(2, 2, "beta")}

SeedUniverse ==
    SeedVectors \cup {SeedVector(3, 1, "gamma"), SeedVector(4, 2, "delta")}

InitWith(indexes) ==
    /\ chatSessions = <<>>
    /\ messages = <<>>
    /\ documents = <<>>
    /\ currentSessionId = 1
    /\ currentMessageId = 1
    /\ currentDocumentId = 1
    /\ clock = 1
    /\ conns = <<>>
    /\ connUser = <<>>
    /\ outbox = <<>>
    /\ handlers = <<>>
    /\ pipelines = <<>>
    /\ lastUpload = Null
    /\ \/ collection = "absent" /\ vectors = {}
       \/ collection = "ready" /\ vectors \in indexes

Init == InitWith({SeedVectors})

\* the chat system with at most maxSessions sessions, maxConns connections and
\* maxHandlers frames, the clients acting as `users` and sending `contents`
ChatNext(users, contents, maxSessions, maxConns, maxHandlers) ==
    \/ \E u \in users : Len(conns) < maxConns /\ Connect(u)
    \/ \E c \in 1..maxConns : Close(c)
    \/ \E c \in 1..maxConns, data \in Datas(1..maxSessions, contents, users) :
           Len(handlers) < maxHandlers /\ Receive(c, data)
    \/ \E i \in 1..maxHandlers, ok \in BOOLEAN : EmbeddingReturns(i, ok)
    \/ \E i \in 1..maxHandlers, ok \in BOOLEAN : ListIndexesReturns(i, ok)
    \/ \E i \in 1..maxHandlers, ok \in BOOLEAN : CreateIndexReturns(i, ok)
    \/ \E i \in 1..maxHandlers : ReadyWaitElapsed(i)
    \/ CollectionReady
    \/ \E i \in 1..maxHandlers, ok \in BOOLEAN : QueryReturns(i, ok)
    \/ \E i \in 1..maxHandlers, ok \in BOOLEAN, reply \in Replies :
           CompletionReturns(i, ok, reply)
    \/ \E u \in users : currentSessionId <= maxSessions /\ CreateSession(u)
    \/ \E u \in users, id \in 1..maxSessions : DeleteSession(u, id)

Next == ChatNext(Users, Contents, MaxSessions, MaxConns, MaxHandlers)

Spec == Init /\ [][Next]_vars

\* the chat system with several sessions, one user and one content
SessionsNext ==
    ChatNext({1}, {Repeat("b", PreviewLimit + 1)}, ManySessions, MaxConns, MaxHandlers)

SpecSessions == Init /\ [][SessionsNext]_vars

\* the chat system over any contents of the hosted index
InitRetrieve == InitWith(SUBSET SeedUniverse)

RetrieveNext ==
    ChatNext(Users, {Repeat("b", PreviewLimit + 1)}, MaxSessions, MaxConns, OneHandler)

SpecRetrieve == InitRetrieve /\ [][RetrieveNext]_vars

\* the chat system with several connections, one user and one content
ConnsNext ==
    ChatNext({1}, {Repeat("a", PreviewLimit)}, MaxSessions, TwoConns, MaxHandlers)

SpecConns == Init /\ [][ConnsNext]_vars

\* a burst: one client sends chat_messages for its session faster than the
\* external calls return; only those of the first requests return
BurstNext ==
    \/ Len(conns) < MaxConns /\ Connect(1)
    \/ currentSessionId <= MaxSessions /\ CreateSession(1)
    \/ \E c \in 1..MaxConns,
          data \in Datas(1..MaxSessions, {Repeat("a", PreviewLimit)}, {1}) :
           /\ Len(handlers) < Burst
           /\ data.type = "chat_message"
           /\ Receive(c, data)
    \/ \E i \in 1..Answered, ok \in BOOLEAN : EmbeddingReturns(i, ok)
    \/ \E i \in 1..Answered, ok \in BOOLEAN : ListIndexesReturns(i, ok)
    \/ \E i \in 1..Answered, ok \in BOOLEAN : CreateIndexReturns(i, ok)
    \/ \E i \in 1..Answered : ReadyWaitElapsed(i)
    \/ CollectionReady
    \/ \E i \in 1..Answered, ok \in BOOLEAN : QueryReturns(i, ok)
    \/ \E i \in 1..Answered, ok \in BOOLEAN, reply \in Replies :
           CompletionReturns(i, ok, reply)

SpecBurst == Init /\ [][BurstNext]_vars

-----------------------------------------------------------------------------
(* Specification of the document pipeline *)

Texts == {<<>>, <<" ", "\n">>, <<"a", " ", "b">>}

Files ==
    [mimetype : {"text/plain", "application/pdf", "image/png"},
     size : {FileSizeLimit, FileSizeLimit + 1}, originalname : {"doc.txt"}, text : Texts]

PipelineNext ==
    \/ \E authenticated \in BOOLEAN, u \in Users, hasFile \in BOOLEAN, file \in Files :
           currentDocumentId <= MaxDocs /\ Upload(authenticated, u, hasFile, file)
    \/ \E d \in 1..MaxDocs, chunks \in Splits(MaxChunks) : PipelineStart(d, chunks)
    \/ \E d \in 1..MaxDocs, k \in 1..MaxChunks, ok \in BOOLEAN :
           ChunkEmbeddingReturns(d, k, ok)
    \/ \E d \in 1..MaxDocs, ok \in BOOLEAN : PipelineListIndexesReturns(d, ok)
    \/ \E d \in 1..MaxDocs, ok \in BOOLEAN : PipelineCreateIndexReturns(d, ok)
    \/ \E d \in 1..MaxDocs : PipelineReadyWaitElapsed(d)
    \/ ~Running /\ CollectionReady
    \/ \E d \in 1..MaxDocs, ok \in BOOLEAN : UpsertReturns(d, ok)

SpecPipeline == Init /\ [][PipelineNext]_vars

-----------------------------------------------------------------------------
(* Properties of the realtime gateway *)

InFlight == {"embedding", "listIndexes", "createIndex", "waitReady", "query", "completion"}

\* the positions in outbox[c] of the frames handler i sent
FramesOf(i) ==
    LET c == handlers[i].conn
    IN  {k \in 1..Len(outbox[c]) : outbox[c][k].cause = i}

\* handler i takes its last step in this transition and ends in state pc
Ends(i, pc) ==
    /\ i \in 1..Len(handlers')
    /\ handlers'[i].pc = pc
    /\ i \in 1..Len(handlers) => handlers[i].pc # pc

\* exactly one frame of the given type is sent in this transition, on connection c
SendsOne(c, type) ==
    /\ Len(outbox'[c]) = Len(outbox[c]) + 1
    /\ outbox'[c][Len(outbox'[c])].type = type
    /\ SubSeq(outbox'[c], 1, Len(outbox[c])) = outbox[c]
    /\ \A d \in 1..Len(outbox) : d # c => outbox'[d] = outbox[d]

\* C1: a chat_message naming no session, or a session of another user, gets one
\* `error` frame and nothing else: no message is stored, no session changes,
\* and the handler never reaches the retriever or the responder.
C1_UnauthorizedRejected ==
    [][/\ \A i \in 1..Len(handlers') :
            LET h == handlers'[i]
            IN  (/\ i > Len(handlers)
                 /\ h.type = "chat_message"
                 /\ \/ h.sessionId \notin DOMAIN chatSessions
                    \/ chatSessions[h.sessionId].userId # h.userId)
                => /\ messages' = messages
                   /\ chatSessions' = chatSessions
                   /\ currentMessageId' = currentMessageId
                   /\ SendsOne(h.conn, "error")
                   /\ h.pc = "rejected"
                   /\ h.retrieval = "none"
                   /\ h.userMessage = Null
       /\ \A i \in 1..Len(handlers) :
            handlers[i].pc = "rejected" => handlers'[i] = handlers[i]]_vars

C1_Witness ==
    \E i \in 1..Len(handlers) :
        /\ handlers[i].pc = "rejected"
        /\ handlers[i].sessionId \in DOMAIN chatSessions
        /\ chatSessions[handlers[i].sessionId].userId # handlers[i].userId
        /\ \E k \in FramesOf(i) : outbox[handlers[i].conn][k].type = "error"

\* C2: at most one handler per connection is in the Processing state.
C2_OneHandlerPerConnection ==
    \A c \in 1..Len(conns) :
        Cardinality({i \in 1..Len(handlers) :
                        handlers[i].conn = c /\ handlers[i].pc \in InFlight}) <= 1

\* C4: a handler that ends in its catch block sends exactly one `error` frame
\* on its own connection while that connection is open, sends nothing else and
\* leaves every connection's readyState alone.
C4_ErrorsReported ==
    [][\A i \in 1..Len(handlers') :
          Ends(i, "failed") =>
            LET c == handlers'[i].conn
            IN  /\ conns' = conns
                /\ conns[c] = "open" =>
                      /\ SendsOne(c, "error")
                      /\ outbox'[c][Len(outbox'[c])].cause = i
                /\ conns[c] # "open" => outbox' = outbox]_vars

\* a failed chat_message followed, on the same connection, by an answered one
C4_Witness ==
    \E i, j \in 1..Len(handlers) :
        /\ i < j
        /\ handlers[i].conn = handlers[j].conn
        /\ handlers[i].type = "chat_message" /\ handlers[i].pc = "failed"
        /\ handlers[j].pc = "done"
        /\ conns[handlers[i].conn] = "open"
        /\ \E k \in FramesOf(i), l \in FramesOf(j) :
              /\ outbox[handlers[i].conn][k].type = "error"
              /\ outbox[handlers[j].conn][l].type = "chat_response"

\* C5: when retrieval fails, the retriever returns "" and the handler goes on
\* to the chat completion; a handler reaches its catch block only from the
\* parse of the frame or from the chat completion, and one that completes
\* after a failed retrieval has persisted its assistant message.
C5_RetrievalBestEffort ==
    [][\A i \in 1..Len(handlers) :
          /\ (handlers[i].retrieval = "pending" /\ handlers'[i].retrieval = "failed")
                => /\ handlers'[i].context = ""
                   /\ handlers'[i].pc = "completion"
          /\ (handlers[i].pc # "failed" /\ handlers'[i].pc = "failed")
                => handlers[i].pc = "completion"
          /\ (handlers[i].retrieval = "failed" /\ handlers'[i].pc = "done"
                /\ handlers[i].pc # "done")
                => /\ ~IsNull(handlers'[i].aiMessage)
                   /\ Get(handlers'[i].aiMessage).id \in DOMAIN messages'
                   /\ messages'[Get(handlers'[i].aiMessage).id].role = "assistant"]_vars

C5_Witness ==
    \E i \in 1..Len(handlers) :
        /\ handlers[i].retrieval = "failed"
        /\ handlers[i].pc = "done"
        /\ ~IsNull(handlers[i].aiMessage)
        /\ Get(handlers[i].aiMessage).id \in DOMAIN messages

\* C7: an assistant message carries the sources marker exactly when the context
\* retrieved for its request was not empty, that is when the search succeeded
\* and one of its results, a chunk of the requesting user, scored above 0.7;
\* a user message carries no marker.
C7_SourcesMarker ==
    /\ \A i \in 1..Len(handlers) :
          ~IsNull(handlers[i].aiMessage) =>
             LET h == handlers[i]
                 marked == Get(h.aiMessage).sources # {}
             IN  /\ marked <=> h.context # ""
                 /\ marked <=>
                       /\ h.retrieval = "ok"
                       /\ \E k \in 1..Len(h.results) :
                             /\ h.results[k].score > ScoreThreshold
                             /\ h.results[k].metadata.userId = h.userId
                 /\ Len(h.results) <= TopK
    /\ \A m \in DOMAIN messages :
          /\ messages[m].role = "user" => messages[m].sources = {}
          /\ messages[m].role = "assistant" =>
                \E i \in 1..Len(handlers) : handlers[i].aiMessage = Some(messages[m])

C7_Witness ==
    \E i \in 1..Len(handlers) :
        /\ handlers[i].pc = "done"
        /\ Get(handlers[i].aiMessage).sources # {}
        /\ Get(handlers[i].aiMessage).id \in DOMAIN messages

\* the preview the specification describes
ExpectedPreview(content) ==
    IF Len(content) <= 100 THEN content ELSE SubSeq(content, 1, 100) \o "..."

\* the handler that was the last to finish for session s
LastDone(s) ==
    LET done == {i \in 1..Len(handlers) :
                    handlers[i].pc = "done" /\ handlers[i].sessionId = s}
    IN  IF done = {} THEN 0
        ELSE CHOOSE i \in done : \A j \in done :
                Get(handlers[j].aiMessage).createdAt <= Get(handlers[i].aiMessage).createdAt

\* C10: a session's lastMessage is the preview of the content of the
\* chat_message that was the last to be handled successfully for it: the
\* content itself up to 100 characters, its first 100 characters and "..."
\* beyond; it is unset while no chat_message has succeeded.
C10_LastMessagePreview ==
    \A s \in DOMAIN chatSessions :
        IF LastDone(s) = 0 THEN chatSessions[s].lastMessage = Null
        ELSE chatSessions[s].lastMessage
                = Some(ExpectedPreview(handlers[LastDone(s)].content))

C10_Witness ==
    \E s \in DOMAIN chatSessions :
        /\ LastDone(s) # 0
        /\ Len(handlers[LastDone(s)].content) > 100
        /\ Len(Get(chatSessions[s].lastMessage)) = 103

\* C9: when a session is deleted, no message of that session is left and the
\* session is gone for good, while every other session and every message of
\* another session is what it was.
C9_DeleteSessionFrame ==
    [][/\ \A id \in DOMAIN chatSessions :
            id \notin DOMAIN chatSessions' =>
               /\ getMessagesBySessionId(messages', id) = <<>>
               /\ \A m \in DOMAIN messages' : messages'[m].sessionId # id
               /\ \A o \in DOMAIN chatSessions \ {id} :
                     o \in DOMAIN chatSessions' /\ chatSessions'[o] = chatSessions[o]
               /\ \A m \in DOMAIN messages :
                     messages[m].sessionId # id =>
                        m \in DOMAIN messages' /\ messages'[m] = messages[m]
               /\ DOMAIN messages' \subseteq DOMAIN messages
       /\ \A id \in DOMAIN chatSessions' :
            id \in DOMAIN chatSessions \/ id = currentSessionId]_vars

\* a session that had messages is deleted, another one keeps its messages
C9_Witness ==
    \E id \in 1..(currentSessionId - 1), o \in DOMAIN chatSessions :
        /\ id \notin DOMAIN chatSessions
        /\ \E i \in 1..Len(handlers) :
              handlers[i].sessionId = id /\ handlers[i].pc = "done"
        /\ getMessagesBySessionId(messages, id) = <<>>
        /\ Len(getMessagesBySessionId(messages, o)) = 2

\* every frame on every connection was sent by a handler of that connection
OwnFramesOnly ==
    \A c \in 1..Len(outbox) : \A k \in 1..Len(outbox[c]) :
        /\ outbox[c][k].cause \in 1..Len(handlers)
        /\ handlers[outbox[c][k].cause].conn = c

C17_ResponsesInReceiptOrder ==
    \A i, j \in 1..Len(handlers) :
        (i < j /\ handlers[i].conn = handlers[j].conn) =>
            \A k \in FramesOf(i), l \in FramesOf(j) :
                (/\ outbox[handlers[i].conn][k].type = "chat_response"
                 /\ outbox[handlers[j].conn][l].type = "chat_response") => k < l

\* C18: when no handler is in flight, no session holds a message newer than
\* its last update.
C18_SessionUpdatedWithMessages ==
    (\A i \in 1..Len(handlers) : handlers[i].pc \notin InFlight) =>
        \A m \in DOMAIN messages :
            messages[m].sessionId \in DOMAIN chatSessions =>
                messages[m].createdAt <= chatSessions[messages[m].sessionId].updatedAt

\* the ids of the stored messages of session s
MessageIdsOf(s) == {m \in DOMAIN messages : messages[m].sessionId = s}

\* C19: a stored message is never changed; a message leaves the store only in
\* a step that deletes its session; a new message gets the next id; and
\* getMessagesBySessionId returns the stored messages of the session, each
\* once, and no other, in the order in which they were created.
C19_MessagesAppendOnly ==
    /\ [](\A s \in 1..(currentSessionId - 1) :
            LET r == getMessagesBySessionId(messages, s)
            IN  /\ {r[k].id : k \in 1..Len(r)} = MessageIdsOf(s)
                /\ Len(r) = Cardinality(MessageIdsOf(s))
                /\ \A k \in 1..Len(r) : r[k] = messages[r[k].id]
                /\ \A k, l \in 1..Len(r) :
                      k < l => /\ r[k].id < r[l].id
                               /\ r[k].createdAt <= r[l].createdAt)
    /\ [][/\ \A m \in DOMAIN messages :
               IF m \in DOMAIN messages' THEN messages'[m] = messages[m]
               ELSE /\ messages[m].sessionId \in DOMAIN chatSessions
                    /\ messages[m].sessionId \notin DOMAIN chatSessions'
          /\ \A m \in DOMAIN messages' \ DOMAIN messages :
               /\ m = currentMessageId
               /\ currentMessageId' = currentMessageId + 1
               /\ \A o \in DOMAIN messages : o < m]_vars

\* two sessions hold messages, and those of one were not created in a row
C19_Witness ==
    \E s, o \in DOMAIN chatSessions :
        /\ s # o
        /\ LET r == getMessagesBySessionId(messages, s)
           IN  Len(r) = 2 /\ r[2].id > r[1].id + 1
        /\ Len(getMessagesBySessionId(messages, o)) >= 1

\* C20: the history handed to the responder is the last 10 of the messages
\* loaded for the session (all of them when there are fewer), in their order,
\* each reduced to role and content; every loaded message is of that session;
\* and the user message of the request is among those last 10.
C20_HistoryIncludesRequest ==
    \A i \in 1..Len(handlers) :
        handlers[i].retrieval \in {"ok", "failed"} =>
            LET h    == handlers[i]
                n    == Len(h.loaded)
                from == IF n > 10 THEN n - 9 ELSE 1
            IN  /\ Len(h.history) = n - from + 1
                /\ \A k \in 1..Len(h.history) :
                      h.history[k] = [role    |-> h.loaded[from + k - 1].role,
                                      content |-> h.loaded[from + k - 1].content]
                /\ \A k \in 1..n : h.loaded[k].sessionId = h.sessionId
                /\ \E k \in from..n : h.loaded[k] = Get(h.userMessage)

\* C21: a user message is appended to a session only by a request that
\* arrived on a connection opened by the user the request names, who is the
\* owner of the session.
C21_ChatsUserSpecific ==
    \A i \in 1..Len(handlers) :
        ~IsNull(handlers[i].userMessage) =>
            connUser[handlers[i].conn] = handlers[i].userId

\* C23: the steps of one authorized request come in a fixed order: the user
\* message is stored in the step that starts the retrieval, the responder is
\* called only when the retrieval has returned, the assistant message is
\* stored only when the responder has returned, after the user message, the
\* session is updated after the assistant message, and the `chat_response`
\* is the last thing the step does, carrying two messages already stored.
C23_StepsInOrder ==
    /\ [](\A i \in 1..Len(handlers) :
            LET h == handlers[i]
            IN  /\ h.retrieval # "none" => ~IsNull(h.userMessage)
                /\ h.pc \in {"embedding", "listIndexes", "createIndex", "waitReady",
                              "query"} => h.retrieval = "pending" /\ IsNull(h.aiMessage)
                /\ h.pc = "completion" =>
                      h.retrieval \in {"ok", "failed"} /\ IsNull(h.aiMessage)
                /\ ~IsNull(h.aiMessage) =>
                      /\ h.pc = "done"
                      /\ h.retrieval \in {"ok", "failed"}
                      /\ Get(h.userMessage).id < Get(h.aiMessage).id
                      /\ Get(h.userMessage).createdAt < Get(h.aiMessage).createdAt
                /\ \A k \in FramesOf(i) :
                      outbox[h.conn][k].type = "chat_response" => h.pc = "done")
    /\ [][/\ \A i \in 1..Len(handlers') :
               (i > Len(handlers) /\ handlers'[i].pc = "embedding") =>
                   /\ Get(handlers'[i].userMessage).id \notin DOMAIN messages
                   /\ messages'[Get(handlers'[i].userMessage).id]
                         = Get(handlers'[i].userMessage)
          /\ \A i \in 1..Len(handlers) :
               Ends(i, "done") =>
                   LET h == handlers'[i]
                       a == Get(h.aiMessage)
                   IN  /\ handlers[i].pc = "completion"
                       /\ a.id \notin DOMAIN messages
                       /\ messages'[a.id] = a
                       /\ h.sessionId \in DOMAIN chatSessions =>
                             chatSessions'[h.sessionId].updatedAt > a.createdAt
                       /\ conns[h.conn] = "open" =>
                             LET f == outbox'[h.conn][Len(outbox'[h.conn])]
                             IN  /\ f.type = "chat_response"
                                 /\ f.aiMessage.id \in DOMAIN messages'
                                 /\ f.userMessage.id < currentMessageId
          /\ \A m \in DOMAIN messages' \ DOMAIN messages :
               messages'[m].role = "assistant" =>
                   \E i \in 1..Len(handlers) :
                       Ends(i, "done") /\ Get(handlers'[i].aiMessage).id = m]_vars

\* a request went through every step: retrieval with results, completion,
\* both messages stored, session updated, response sent
C23_Witness ==
    \E i \in 1..Len(handlers) :
        /\ handlers[i].pc = "done"
        /\ handlers[i].retrieval = "ok"
        /\ Len(handlers[i].results) > 0
        /\ Get(handlers[i].userMessage).id \in DOMAIN messages
        /\ Get(handlers[i].aiMessage).id \in DOMAIN messages
        /\ handlers[i].sessionId \in DOMAIN chatSessions
        /\ chatSessions[handlers[i].sessionId].updatedAt
              > Get(handlers[i].aiMessage).createdAt
        /\ \E k \in FramesOf(i) : outbox[handlers[i].conn][k].type = "chat_response"

\* C24: the messages of a session, in creation order, alternate user,
\* assistant, user, assistant, ..., starting with a user message.
C24_RolesAlternate ==
    \A s \in DOMAIN chatSessions :
        LET r == getMessagesBySessionId(messages, s)
        IN  \A k \in 1..Len(r) :
                r[k].role = IF k % 2 = 1 THEN "user" ELSE "assistant"

\* C25: every stored message belongs to a session that exists.
C25_NoOrphanMessages ==
    \A m \in DOMAIN messages : messages[m].sessionId \in DOMAIN chatSessions

\* the requests accepted for session s
RequestsOf(s) ==
    {i \in 1..Len(handlers) :
        handlers[i].sessionId = s /\ ~IsNull(handlers[i].userMessage)}

\* C26: when every request accepted for a session has finished successfully,
\* the session's lastMessage is the preview of the user message stored last
\* for it.
C26_PreviewOfLatestUserMessage ==
    \A s \in DOMAIN chatSessions :
        (RequestsOf(s) # {} /\ \A i \in RequestsOf(s) : handlers[i].pc = "done") =>
            LET r    == getMessagesBySessionId(messages, s)
                last == CHOOSE k \in 1..Len(r) :
                            /\ r[k].role = "user"
                            /\ \A l \in 1..Len(r) : r[l].role = "user" => l <= k
            IN  chatSessions[s].lastMessage = Some(ExpectedPreview(r[last].content))

\* C27: when the chat completion fails, the step stores and removes no
\* message, so the user message of the request stays, changes no session,
\* creates no assistant message, and sends exactly one `error` frame on the
\* connection of the request while it is open; a request that failed has
\* never sent a `chat_response`.
C27_ResponderFailureKeepsUserMessage ==
    /\ [](\A i \in 1..Len(handlers) :
            handlers[i].pc = "failed" =>
               /\ IsNull(handlers[i].aiMessage)
               /\ \A k \in FramesOf(i) : outbox[handlers[i].conn][k].type = "error"
               /\ \A m \in DOMAIN messages :
                     messages[m].role = "assistant" =>
                        \E j \in 1..Len(handlers) :
                            j # i /\ handlers[j].aiMessage = Some(messages[m]))
    /\ [][\A i \in 1..Len(handlers) :
            (handlers[i].pc = "completion" /\ handlers'[i].pc = "failed") =>
               LET c == handlers[i].conn
                   u == Get(handlers[i].userMessage)
               IN  /\ messages' = messages
                   /\ currentMessageId' = currentMessageId
                   /\ chatSessions' = chatSessions
                   /\ handlers'[i].userMessage = handlers[i].userMessage
                   /\ u.id \in DOMAIN messages => messages'[u.id] = u
                   /\ conns[c] = "open" =>
                         /\ SendsOne(c, "error")
                         /\ outbox'[c][Len(outbox'[c])].cause = i
                   /\ conns[c] # "open" => outbox' = outbox]_vars

\* a request whose completion failed: its user message is stored, its session
\* has no preview, and its one frame is an `error`
C27_Witness ==
    \E i \in 1..Len(handlers) :
        /\ handlers[i].pc = "failed"
        /\ handlers[i].retrieval \in {"ok", "failed"}
        /\ Get(handlers[i].userMessage).id \in DOMAIN messages
        /\ handlers[i].sessionId \in DOMAIN chatSessions
        /\ chatSessions[handlers[i].sessionId].lastMessage = Null
        /\ Cardinality(FramesOf(i)) = 1
        /\ \A m \in DOMAIN messages : messages[m].role = "user"

\* C29: a closed connection stays closed and no frame is ever added to its
\* outbox; a request that completes after its connection has closed still
\* stores its assistant message and updates the preview of its session.
C29_ClosedIsTerminal ==
    [][/\ \A c \in 1..Len(conns) :
            conns[c] = "closed" =>
                conns'[c] = "closed" /\ outbox'[c] = outbox[c]
       /\ \A i \in 1..Len(handlers) :
            (Ends(i, "done") /\ conns[handlers[i].conn] = "closed") =>
                LET h == handlers'[i]
                    a == Get(h.aiMessage)
                IN  /\ a.id \notin DOMAIN messages
                    /\ messages'[a.id] = a
                    /\ a.role = "assistant"
                    /\ h.sessionId \in DOMAIN chatSessions =>
                          /\ chatSessions'[h.sessionId].lastMessage
                                = Some(ExpectedPreview(h.content))
                          /\ chatSessions'[h.sessionId].updatedAt > a.createdAt]_vars

\* a request completed on a closed connection: nothing was sent for it, its
\* assistant message is stored and its session has the preview
C29_Witness ==
    \E i \in 1..Len(handlers) :
        /\ handlers[i].pc = "done"
        /\ conns[handlers[i].conn] = "closed"
        /\ FramesOf(i) = {}
        /\ Get(handlers[i].aiMessage).id \in DOMAIN messages
        /\ handlers[i].sessionId \in DOMAIN chatSessions
        /\ chatSessions[handlers[i].sessionId].lastMessage
              = Some(ExpectedPreview(handlers[i].content))

-----------------------------------------------------------------------------
(* Properties of the context retriever *)

\* the string t occurs in the string s
Contains(s, t) ==
    \E k \in 1..(Len(s) - Len(t) + 1) : SubSeq(s, k, k + Len(t) - 1) = t

Retrieved(i) == handlers[i].retrieval \in {"ok", "failed"}

\* C3: whatever the index holds, the context returned for a user holds no text
\* of a chunk of another user, and every search result is a chunk of that user.
C3_TenantIsolation ==
    \A i \in 1..Len(handlers) :
        Retrieved(i) =>
           /\ \A v \in vectors :
                 v.metadata.userId # handlers[i].userId
                    => ~Contains(handlers[i].context, v.metadata.text)
           /\ \A k \in 1..Len(handlers[i].results) :
                 handlers[i].results[k].metadata.userId = handlers[i].userId

\* a context was built while the index also held a chunk of another user
C3_Witness ==
    \E i \in 1..Len(handlers) :
        /\ handlers[i].context # ""
        /\ \E v \in vectors : v.metadata.userId # handlers[i].userId
        /\ \E v \in vectors : /\ v.metadata.userId = handlers[i].userId
                              /\ Contains(handlers[i].context, v.metadata.text)

\* C6: a search result is in the context exactly when its score is above 0.7,
\* and the context is "" when no result is, the search returning nothing
\* included.
C6_ScoreThreshold ==
    \A i \in 1..Len(handlers) :
        Retrieved(i) =>
           LET h == handlers[i]
           IN  /\ \A k \in 1..Len(h.results) :
                     Contains(h.context, h.results[k].text)
                        <=> h.results[k].score > ScoreThreshold
               /\ (\A k \in 1..Len(h.results) : h.results[k].score <= ScoreThreshold)
                     => h.context = ""

\* a result scoring exactly 0.7 is dropped while another one is kept
C6_Witness ==
    \E i \in 1..Len(handlers) :
        /\ handlers[i].retrieval = "ok"
        /\ handlers[i].context # ""
        /\ \E k \in 1..Len(handlers[i].results) :
              /\ handlers[i].results[k].score = ScoreThreshold
              /\ ~Contains(handlers[i].context, handlers[i].results[k].text)

-----------------------------------------------------------------------------
(* Properties of the document pipeline *)

Terminal == {"processed", "failed"}

\* C8: a document is created `processing`; its status changes at most once, to
\* `processed` when its pipeline resolves or to `failed` when it rejects; a
\* terminal status stays, and the pipeline of such a document does not move.
C8_DocumentStatusOnce ==
    [][/\ \A d \in DOMAIN documents' \ DOMAIN documents :
            documents'[d].status = "processing"
       /\ \A d \in DOMAIN documents :
            /\ d \in DOMAIN documents'
            /\ documents[d].status \in Terminal =>
                  /\ documents'[d].status = documents[d].status
                  /\ pipelines'[d].pc = pipelines[d].pc
            /\ documents[d].status = "processing" =>
                  \/ documents'[d].status = "processing"
                  \/ documents'[d].status = "processed" /\ pipelines'[d].pc = "resolved"
                  \/ documents'[d].status = "failed" /\ pipelines'[d].pc = "rejected"
       /\ \A d \in DOMAIN pipelines' :
            /\ pipelines'[d].pc = "resolved" => documents'[d].status = "processed"
            /\ pipelines'[d].pc = "rejected" => documents'[d].status = "failed"]_vars

\* one document processed, another failed after its embedding calls had started
C8_Witness ==
    \E d, e \in DOMAIN documents :
        /\ documents[d].status = "processed"
        /\ documents[e].status = "failed"
        /\ Len(pipelines[e].chunks) > 0

\* the batch the pipeline of document d should send: one record per chunk, in
\* chunk order, each holding the embedding of its own chunk's text
ExpectedBatch(d) ==
    {[id       |-> <<d, k - 1>>,
      values   |-> Embedding(pipelines[d].chunks[k].text),
      metadata |-> [documentId |-> d, documentName |-> documents[d].name,
                    userId |-> pipelines[d].userId, chunkIndex |-> k - 1,
                    text |-> pipelines[d].chunks[k].text]] :
        k \in 1..Len(pipelines[d].chunks)}

\* C12: the pipeline makes one embedding call per chunk; it sends at most one
\* upsert, only when every embedding call has succeeded, as one batch holding
\* one record per chunk with the embedding of that chunk; when an embedding
\* call fails no upsert is sent, and the index changes only by the batch of a
\* pipeline whose upsert succeeds.
C12_EmbedThenUpsertOnce ==
    /\ [](\A d \in DOMAIN pipelines :
            LET p == pipelines[d]
            IN  /\ Len(p.embedded) = Len(p.chunks)
                /\ Len(p.embeddings) = Len(p.chunks)
                /\ Len(p.upserts) <= 1
                /\ Len(p.upserts) = 1 =>
                      /\ \A k \in 1..Len(p.chunks) : p.embedded[k] = "ok"
                      /\ p.upserts[1] = ExpectedBatch(d)
                      /\ Cardinality(p.upserts[1]) = Len(p.chunks)
                /\ (\E k \in 1..Len(p.embedded) : p.embedded[k] = "failed") =>
                      /\ p.upserts = <<>>
                      /\ p.pc = "rejected"
                /\ p.pc \in {"upsert", "resolved"} => Len(p.upserts) = 1)
    /\ [][vectors' # vectors =>
            \E d \in DOMAIN pipelines :
                /\ pipelines[d].pc = "upsert" /\ pipelines'[d].pc = "resolved"
                /\ vectors' = IndexUpsert(vectors, ExpectedBatch(d))]_vars

\* a document of two chunks is in the index, and a document one of whose
\* embedding calls failed has sent no upsert
C12_Witness ==
    \E d, e \in DOMAIN pipelines :
        /\ pipelines[d].pc = "resolved"
        /\ Len(pipelines[d].chunks) = 2
        /\ ExpectedBatch(d) \subseteq vectors
        /\ \E k, l \in 1..Len(pipelines[e].embedded) :
              pipelines[e].embedded[k] = "failed" /\ pipelines[e].embedded[l] = "ok"
        /\ pipelines[e].upserts = <<>>

\* the text holds nothing but whitespace
BlankAfterTrim(text) ==
    \A k \in 1..Len(text) : text[k] = " " \/ text[k] = "\t" \/ text[k] = "\n" \/ text[k] = "\r"

\* C13: a pipeline whose extracted text is blank after trimming rejects in its
\* first step: it has no chunks, has made no embedding call and has sent no
\* upsert, its step leaves the index alone, and its document is `failed`.
C13_BlankTextFails ==
    /\ [](\A d \in DOMAIN pipelines :
            LET p == pipelines[d]
            IN  (BlankAfterTrim(p.text) /\ p.pc # "start") =>
                   /\ p.pc = "rejected"
                   /\ p.chunks = <<>>
                   /\ p.embedded = <<>>
                   /\ p.upserts = <<>>
                   /\ documents[d].status = "failed")
    /\ [][\A d \in DOMAIN pipelines :
            (BlankAfterTrim(pipelines[d].text) /\ pipelines'[d] # pipelines[d]) =>
                /\ pipelines[d].pc = "start"
                /\ vectors' = vectors
                /\ collection' = collection]_vars

\* a text of whitespace only, and an empty file, have failed
C13_Witness ==
    \E d, e \in DOMAIN pipelines :
        /\ pipelines[d].text = <<" ", "\n">>
        /\ pipelines[e].text = <<>>
        /\ documents[d].status = "failed" /\ documents[e].status = "failed"
        /\ pipelines[d].chunks = <<>> /\ pipelines[e].chunks = <<>>

\* C14: no upsert and no query is outstanding against a collection that has
\* not reported ready.
C14_NoUseBeforeReady ==
    /\ \A d \in DOMAIN pipelines : pipelines[d].pc = "upsert" => collection = "ready"
    /\ \A i \in 1..Len(handlers) : handlers[i].pc = "query" => collection = "ready"

-----------------------------------------------------------------------------
(* Properties of the upload route *)

\* the latest upload was answered 201
Answered201 == ~IsNull(lastUpload) /\ Get(lastUpload).response.status = 201

MustReject(request) ==
    \/ ~request.authenticated
    \/ ~request.hasFile
    \/ request.mimetype \notin
          {"application/pdf",
           "application/vnd.openxmlformats-officedocument.wordprocessingml.document",
           "text/plain"}
    \/ request.size > 10 * 1024 * 1024

\* C16: an upload that is unauthenticated, has no file, or has a file of
\* another content type or above 10 MiB is answered with an error status and
\* no body, and its step creates no record and starts no pipeline; every
\* record belongs to an upload that was not one of these.
C16_RejectedUploadCreatesNothing ==
    /\ [](~IsNull(lastUpload) =>
            (MustReject(Get(lastUpload).request)
                <=> Get(lastUpload).response.status \in {400, 401, 500}))
    /\ [](DOMAIN pipelines = DOMAIN documents)
    /\ [][(lastUpload' # lastUpload /\ MustReject(Get(lastUpload').request)) =>
             /\ Get(lastUpload').response.status \in {400, 401, 500}
             /\ Get(lastUpload').response.body = Null
             /\ documents' = documents
             /\ pipelines' = pipelines
             /\ currentDocumentId' = currentDocumentId]_vars

\* a file of a refused content type was rejected while a record stays stored
C16_Witness ==
    /\ ~IsNull(lastUpload)
    /\ Get(lastUpload).request.authenticated
    /\ Get(lastUpload).request.hasFile
    /\ Get(lastUpload).request.mimetype = "image/png"
    /\ Get(lastUpload).request.size <= FileSizeLimit
    /\ Get(lastUpload).response.status = 500
    /\ Cardinality(DOMAIN documents) = 1

-----------------------------------------------------------------------------
(* The whole server with hung external calls: the calls of the first Hung    *)
(* requests and of the first Hung documents never return, every other call   *)
(* returns                                                                   *)

PlainFile ==
    [mimetype |-> "text/plain", size |-> FileSizeLimit, originalname |-> "doc.txt",
     text |-> <<"a", " ", "b">>]

PlainFrames == {data \in Datas(1..MaxSessions, {Repeat("a", PreviewLimit)}, {1}) :
                   data.type = "chat_message"}

\* the steps of the server that are no return of an external call
Arrivals(maxConns, maxHandlers, maxDocs) ==
    \/ PipelineStart(currentDocumentId - 1, <<ChunkTexts[1]>>)
    \/ ~Running /\ Len(conns) < maxConns /\ Connect(1)
    \/ ~Running /\ currentSessionId <= MaxSessions /\ CreateSession(1)
    \/ \E c \in 1..maxConns, data \in PlainFrames :
           ~Running /\ Len(handlers) < maxHandlers /\ Receive(c, data)
    \/ ~Running /\ currentDocumentId <= maxDocs /\ Upload(TRUE, 1, TRUE, PlainFile)
    \/ ~Running /\ CollectionReady

ArrivalsNext == Arrivals(TwoConns, MaxHandlers, MaxDocs)

\* the external calls of request i return
HandlerReturns(i) ==
    /\ ~Running
    /\ \/ \E ok \in BOOLEAN : EmbeddingReturns(i, ok)
       \/ \E ok \in BOOLEAN : ListIndexesReturns(i, ok)
       \/ \E ok \in BOOLEAN : CreateIndexReturns(i, ok)
       \/ ReadyWaitElapsed(i)
       \/ \E ok \in BOOLEAN : QueryReturns(i, ok)
       \/ \E ok \in BOOLEAN, reply \in Replies : CompletionReturns(i, ok, reply)

\* the external calls of the pipeline of document d return
PipelineReturns(d) ==
    \/ \E k \in 1..MaxChunks, ok \in BOOLEAN : ChunkEmbeddingReturns(d, k, ok)
    \/ \E ok \in BOOLEAN : PipelineListIndexesReturns(d, ok)
    \/ \E ok \in BOOLEAN : PipelineCreateIndexReturns(d, ok)
    \/ PipelineReadyWaitElapsed(d)
    \/ \E ok \in BOOLEAN : UpsertReturns(d, ok)

HungNext ==
    \/ ArrivalsNext
    \/ \E i \in (Hung + 1)..MaxHandlers : HandlerReturns(i)
    \/ \E d \in (Hung + 1)..MaxDocs : PipelineReturns(d)

\* a microtask chain runs to its end, and a call that is not hung returns
HungFairness ==
    /\ WF_vars(PipelineStart(currentDocumentId - 1, <<ChunkTexts[1]>>))
    /\ \A i \in (Hung + 1)..MaxHandlers : WF_vars(HandlerReturns(i))
    /\ \A d \in (Hung + 1)..MaxDocs : WF_vars(PipelineReturns(d))

SpecHung == Init /\ [][HungNext]_vars /\ HungFairness

\* C22: while the calls of the first requests and documents stay pending,
\* every other request runs to its end and every other document leaves
\* `processing`.
C22_HungCallStallsOnlyItsTask ==
    /\ \A i \in (Hung + 1)..MaxHandlers :
          [](i <= Len(handlers) =>
                <>(i <= Len(handlers) /\ handlers[i].pc \notin InFlight))
    /\ \A d \in (Hung + 1)..MaxDocs :
          [](d \in DOMAIN documents =>
                <>(d \in DOMAIN documents /\ documents[d].status \in Terminal))

\* the first request and the first document wait for their embedding calls,
\* a later request on another connection is answered and a later document is
\* processed
C22_Witness ==
    /\ Len(handlers) = 2
    /\ handlers[1].pc = "embedding"
    /\ handlers[2].pc = "done"
    /\ handlers[2].conn # handlers[1].conn
    /\ FramesOf(2) # {}
    /\ DOMAIN documents = {1, 2}
    /\ pipelines[1].pc = "embedding" /\ documents[1].status = "processing"
    /\ documents[2].status = "processed"

\* C28: no operation has a createIndex call outstanding for a collection that
\* another operation has created in the meantime.
C28_CreatedOnceWithoutConflict ==
    /\ \A d \in DOMAIN pipelines :
          pipelines[d].pc = "createIndex" => collection = "absent"
    /\ \A i \in 1..Len(handlers) :
          handlers[i].pc = "createIndex" => collection = "absent"

-----------------------------------------------------------------------------
(* The whole server when every external call returns *)

LiveNext ==
    \/ Arrivals(MaxConns, OneHandler, OneDoc)
    \/ \E c \in 1..MaxConns : ~Running /\ Close(c)
    \/ \E i \in 1..OneHandler : HandlerReturns(i)
    \/ \E d \in 1..OneDoc : PipelineReturns(d)

\* a microtask chain runs to its end, and every external call returns
LiveFairness ==
    /\ WF_vars(PipelineStart(currentDocumentId - 1, <<ChunkTexts[1]>>))
    /\ \A i \in 1..OneHandler : WF_vars(HandlerReturns(i))
    /\ \A d \in 1..OneDoc : WF_vars(PipelineReturns(d))

SpecLive == Init /\ [][LiveNext]_vars /\ LiveFairness

\* request i has been answered with one frame, a `chat_response` or an `error`
AnsweredOnce(i) ==
    /\ handlers[i].pc \notin InFlight
    /\ Cardinality(FramesOf(i)) = 1
    /\ \A k \in FramesOf(i) :
          outbox[handlers[i].conn][k].type \in {"chat_response", "error"}

\* C30: when every external call returns, every uploaded document leaves
\* `processing` for `processed` or `failed`, and every chat_message is
\* answered with exactly one frame unless its connection closes; no request
\* is ever answered with more than one frame.
C30_EverythingTerminates ==
    /\ \A d \in 1..OneDoc :
          [](d \in DOMAIN documents =>
                <>(d \in DOMAIN documents /\ documents[d].status \in Terminal))
    /\ \A i \in 1..OneHandler :
          [](i <= Len(handlers) =>
                <>(i <= Len(handlers) /\
                     (conns[handlers[i].conn] = "closed" \/ AnsweredOnce(i))))
    /\ [](\A i \in 1..Len(handlers) : Cardinality(FramesOf(i)) <= 1)

\* the document has been processed and, on a connection still open, the
\* request has been answered with its one frame
C30_Witness ==
    /\ DOMAIN documents = {1}
    /\ documents[1].status = "processed"
    /\ Len(handlers) = 1
    /\ conns[handlers[1].conn] = "open"
    /\ handlers[1].pc = "done"
    /\ AnsweredOnce(1)

====
